---- MODULE Spec2Model ----
(***************************************************************************)
(* Model of the console chat client (src/main.py): the ChatSession store   *)
(* with its history file, the two mode loops chat_without_reasoning        *)
(* (Provider A, "openai") and chat_with_reasoning (Provider B,             *)
(* "anthropic"), the model fallback loop and the response normalizer.      *)
(*                                                                         *)
(* Python strings whose characters matter (user input, message content,    *)
(* block text, error messages, type tags) are sequences of one-character   *)
(* strings; strings only compared for equality (roles, modes, model ids)   *)
(* are TLA+ strings.                                                       *)
(***************************************************************************)
EXTENDS Integers, Sequences, FiniteSets, TLC

\* ------------------------------------------------------------------ bounds
\* Longest conversation (the System message included) at which a new turn
\* may still start.
MaxMsgs == 3

\* ------------------------------------------------------- string operations
Whitespace == {" ", "\n", "\t"}

UpperLetters == <<"A","B","C","D","E","F","G","H","I","J","K","L","M",
                  "N","O","P","Q","R","S","T","U","V","W","X","Y","Z">>

LowerLetters == <<"a","b","c","d","e","f","g","h","i","j","k","l","m",
                  "n","o","p","q","r","s","t","u","v","w","x","y","z">>

\* str.lower() on one character.
LowerChar(c) ==
    IF \E i \in 1..Len(UpperLetters) : UpperLetters[i] = c
    THEN LowerLetters[CHOOSE i \in 1..Len(UpperLetters) : UpperLetters[i] = c]
    ELSE c

\* str.lower()
Lower(s) == [i \in 1..Len(s) |-> LowerChar(s[i])]

RECURSIVE LStrip(_)
LStrip(s) ==
    IF s # <<>> /\ Head(s) \in Whitespace THEN LStrip(Tail(s)) ELSE s

RECURSIVE RStrip(_)
RStrip(s) ==
    IF s # <<>> /\ s[Len(s)] \in Whitespace
    THEN RStrip(SubSeq(s, 1, Len(s) - 1))
    ELSE s

\* strip() left out: the string as typed.
StripNothing(s) == s

\* str.strip()
Strip(s) == RStrip(LStrip(s))

\* `sub in s` for Python strings.
Contains(s, sub) ==
    \E i \in 0..(Len(s) - Len(sub)) : SubSeq(s, i + 1, i + Len(sub)) = sub

\* "\n".join(parts) for a list of strings.
RECURSIVE JoinNewline(_)
JoinNewline(parts) ==
    IF parts = <<>> THEN <<>>
    ELSE IF Len(parts) = 1 THEN parts[1]
    ELSE parts[1] \o <<"\n">> \o JoinNewline(Tail(parts))

\* ------------------------------------------------------- program constants
OPENAI_MODEL == "gpt-4o-mini"

ANTHROPIC_MODEL == "claude-sonnet-4-5-20250929"

SYSTEM_PROMPT == <<"S", "P">>

Modes == {"openai", "anthropic"}

SystemMessage == [role |-> "system", content |-> SYSTEM_PROMPT]

\* ------------------------------------------------------------ history file
\* json.dump escapes the quote, the backslash and control characters of a
\* string; json.load undoes it.
RECURSIVE JsonEscape(_)
JsonEscape(s) ==
    IF s = <<>> THEN <<>>
    ELSE (CASE Head(s) = "\n" -> <<"\\", "n">>
            [] Head(s) = "\t" -> <<"\\", "t">>
            [] Head(s) = "\\" -> <<"\\", "\\">>
            [] Head(s) = "\"" -> <<"\\", "\"">>
            [] OTHER -> <<Head(s)>>) \o JsonEscape(Tail(s))

\* A decoder that leaves escape sequences as they are in the file.
JsonUnescapeRaw(s) == s

RECURSIVE JsonUnescape(_)
JsonUnescape(s) ==
    IF s = <<>> THEN <<>>
    ELSE IF Head(s) = "\\" /\ Len(s) >= 2
         THEN (CASE s[2] = "n" -> <<"\n">>
                 [] s[2] = "t" -> <<"\t">>
                 [] OTHER -> <<s[2]>>) \o JsonUnescape(Tail(Tail(s)))
         ELSE <<Head(s)>> \o JsonUnescape(Tail(s))

\* One message dict as written to / read from the JSON document.
JsonMessage(m) == [role |-> m.role, content |-> JsonEscape(m.content)]

ParseMessage(j) == [role |-> j.role, content |-> JsonUnescape(j.content)]

\* The file is absent, holds text json.load rejects (empty or cut short),
\* or holds a JSON object.  A JSON object is a record of its keys; the value
\* of "messages" is a list of message objects or the JSON null.
AbsentFile == [kind |-> "absent"]

UnparsableFile == [kind |-> "unparsable"]

JsonNull == [kind |-> "null"]

JsonList(items) == [kind |-> "jlist", items |-> items]

JsonFile(doc) == [kind |-> "json", doc |-> doc]

\* history_data of save_history, serialised by json.dump.
HistoryData(msgs, m, ws) ==
    [mode |-> m,
     use_web_search |-> ws,
     last_updated |-> "now",
     messages |-> JsonList([i \in 1..Len(msgs) |-> JsonMessage(msgs[i])])]

\* ChatSession.save_history.  open(..., 'w') creates or truncates the file,
\* json.dump then writes the document.  outcome "ok": the document is
\* written; "open_failed": open raised, the file is as it was;
\* "write_failed": the write raised after the truncation.  Every Exception is
\* swallowed after a warning.
save_history(f, msgs, m, ws, outcome) ==
    CASE outcome = "ok" -> JsonFile(HistoryData(msgs, m, ws))
      [] outcome = "open_failed" -> f
      [] outcome = "write_failed" -> UnparsableFile

SaveOutcomes == {"ok", "open_failed", "write_failed"}

\* Python values whose kind the code can tell apart: a str, None, a list, an
\* object with attributes.
PyStr(s) == [kind |-> "str", s |-> s]

PyNone == [kind |-> "None"]

PyList(items) == [kind |-> "list", items |-> items]

PyObj(attrs) == [kind |-> "obj", attrs |-> attrs]

\* history_data.get("messages", []) decoded to the in-memory value: a list of
\* message dicts, or None for a JSON null.
DecodeMessages(doc) ==
    IF "messages" \notin DOMAIN doc THEN PyList(<<>>)
    ELSE IF doc.messages.kind = "null" THEN PyNone
    ELSE PyList([i \in 1..Len(doc.messages.items) |->
                     ParseMessage(doc.messages.items[i])])

\* load_history without the test of the stored mode.
load_history_any_mode(f, m) ==
    CASE f.kind = "absent" -> PyList(<<>>)
      [] f.kind = "unparsable" -> PyList(<<>>)
      [] f.kind = "json" -> DecodeMessages(f.doc)

\* ChatSession.load_history, started from self.messages = []: the value of
\* self.messages afterwards.  A file json.load rejects is reported and
\* leaves the empty list.
load_history(f, m) ==
    CASE f.kind = "absent" -> PyList(<<>>)
      [] f.kind = "unparsable" -> PyList(<<>>)
      [] f.kind = "json" ->
            IF "mode" \in DOMAIN f.doc /\ f.doc.mode = m
            THEN DecodeMessages(f.doc)
            ELSE PyList(<<>>)

\* ChatSession.__init__ after load_history: None has no insert, so the
\* constructor raises (AttributeError); otherwise the System message is put
\* in front unless one is there already.
InitRaises(f, m) == load_history(f, m).kind = "None"

\* The constructor putting a System message in front without looking at what
\* was loaded.
InitMessagesAlwaysInsert(f, m) == <<SystemMessage>> \o load_history(f, m).items

InitMessages(f, m) ==
    LET loaded == load_history(f, m).items IN
    IF loaded = <<>> \/ loaded[1].role # "system"
    THEN <<SystemMessage>> \o loaded
    ELSE loaded

\* ChatSession.clear_history, the file part: the file is removed when it
\* exists; a failing os.remove is swallowed and leaves it.
clear_history(f, removed) ==
    IF f.kind # "absent" /\ removed THEN AbsentFile ELSE f

\* add_assistant_message writing over the last message instead of adding one.
add_assistant_message_in_place(msgs, content) ==
    [msgs EXCEPT ![Len(msgs)] = [role |-> "assistant", content |-> content]]

\* ChatSession.add_user_message / add_assistant_message
add_user_message(msgs, content) ==
    Append(msgs, [role |-> "user", content |-> content])

add_assistant_message(msgs, content) ==
    Append(msgs, [role |-> "assistant", content |-> content])

\* ChatSession.get_messages_for_openai
get_messages_for_openai(msgs) == msgs

\* The Provider B message list with the System message left in.
get_messages_with_system(msgs) == msgs

\* ChatSession.get_messages_for_anthropic
get_messages_for_anthropic(msgs) ==
    SelectSeq(msgs, LAMBDA msg : msg.role # "system")

\* ChatSession.get_system_prompt
get_system_prompt(msgs) ==
    IF msgs # <<>> /\ msgs[1].role = "system" THEN msgs[1].content
    ELSE SYSTEM_PROMPT

\* ------------------------------------------------------------ request build
TEMPERATURE_TENTHS == 7

MAX_TOKENS == 4096

BUDGET_TOKENS == 1024

MAX_USES == 5

WEB_SEARCH_OPTIONS ==
    [search_context_size |-> "medium",
     user_location |-> [type |-> "approximate",
                        approximate |-> [country |-> "RU", city |-> "Moscow",
                                         region |-> "Moscow"]]]

\* The Provider A request with temperature set whatever the search flag.
BuildRequestOpenAIWithTemperature(msgs, ws) ==
    LET model_to_use == IF ws THEN "gpt-4o-mini-search-preview" ELSE OPENAI_MODEL
        base == [model |-> model_to_use,
                 messages |-> get_messages_for_openai(msgs),
                 temperature |-> TEMPERATURE_TENTHS]
    IN  IF ws THEN base @@ [web_search_options |-> WEB_SEARCH_OPTIONS]
        ELSE base

\* request_params of chat_without_reasoning.
BuildRequestOpenAI(msgs, ws) ==
    LET model_to_use == IF ws THEN "gpt-4o-mini-search-preview" ELSE OPENAI_MODEL
        base == [model |-> model_to_use,
                 messages |-> get_messages_for_openai(msgs)]
    IN  IF ws THEN base @@ [web_search_options |-> WEB_SEARCH_OPTIONS]
        ELSE base @@ [temperature |-> TEMPERATURE_TENTHS]

\* request_params of chat_with_reasoning.
BuildRequestAnthropic(msgs, ws) ==
    LET base == [model |-> ANTHROPIC_MODEL,
                 max_tokens |-> MAX_TOKENS,
                 system |-> get_system_prompt(msgs),
                 messages |-> get_messages_for_anthropic(msgs),
                 thinking |-> [type |-> "enabled",
                               budget_tokens |-> BUDGET_TOKENS]]
    IN  IF ws THEN base @@ [tools |-> <<[type |-> "web_search_20250305",
                                         name |-> "web_search",
                                         max_uses |-> MAX_USES]>>]
        ELSE base

NoRequest == [model |-> "none"]

\* ------------------------------------------------------------------- errors
\* Exception classes the provider SDKs and the interpreter raise, with the
\* part of the class hierarchy the except clauses depend on.
Superclasses(cls) ==
    CASE cls = "APITimeoutError" -> {"APITimeoutError", "APIError", "Exception"}
      [] cls = "BadRequestError" -> {"BadRequestError", "APIError", "Exception"}
      [] cls = "APIError" -> {"APIError", "Exception"}
      [] cls = "Exception" -> {"Exception"}
      [] cls = "KeyboardInterrupt" -> {"KeyboardInterrupt"}

MsgModelNotSupported == <<"M", "o", "d", "e", "l", " ", "n", "o", "t", " ", "s", "u", "p", "p", "o", "r", "t", "e", "d">>

MsgUnknownModel == <<"U", "n", "k", "n", "o", "w", "n", " ", "M", "O", "D", "E", "L">>

MsgInvalidRequest == <<"i", "n", "v", "a", "l", "i", "d">>

Err(cls, msg) == [cls |-> cls, msg |-> msg]

\* Errors a Provider B call can raise.
AnthropicErrors ==
    {Err("BadRequestError", MsgModelNotSupported),
     Err("BadRequestError", MsgUnknownModel),
     Err("BadRequestError", MsgInvalidRequest),
     Err("APITimeoutError", <<>>),
     Err("APIError", <<>>),
     Err("Exception", <<>>)}

\* Errors a Provider A call can raise.
OpenAIErrors ==
    {Err("APITimeoutError", <<>>), Err("APIError", <<>>), Err("Exception", <<>>)}

\* The test of the first attempt's except clause: a BadRequestError whose
\* text names the model is taken as "model not supported".
IsModelNotSupported(e) ==
    /\ "BadRequestError" \in Superclasses(e.cls)
    /\ \/ Contains(e.msg, MsgModelNotSupported)
       \/ Contains(Lower(e.msg), <<"m", "o", "d", "e", "l">>)

alternative_models ==
    <<"claude-sonnet-4-5-20250929",
      "claude-sonnet-4-5-20250514",
      "claude-sonnet-4-5",
      "claude-3-7-sonnet-20250219",
      "claude-3-5-sonnet-20241022">>

\* The except clauses of a mode loop, in order: the clause an exception that
\* leaves the try block lands in.
ExceptClause(cls) ==
    CASE "KeyboardInterrupt" \in Superclasses(cls) -> "KeyboardInterrupt"
      [] "APITimeoutError" \in Superclasses(cls) -> "APITimeoutError"
      [] "APIError" \in Superclasses(cls) -> "APIError"
      [] "Exception" \in Superclasses(cls) -> "Exception"

\* The except clauses with the last one leaving the loop as well.
ClauseExitBreakOnException(clause) ==
    IF clause \in {"KeyboardInterrupt", "Exception"} THEN "break" ELSE "continue"

\* What each except clause does after reporting: "break" leaves the loop
\* (after save_history), "continue" reads the next input.
ClauseExit(clause) ==
    IF clause = "KeyboardInterrupt" THEN "break" ELSE "continue"

\* ---------------------------------------------------------------- responses
TypeText == <<"t", "e", "x", "t">>

TypeThinking == <<"t", "h", "i", "n", "k", "i", "n", "g">>

TypeToolUse == <<"t", "o", "o", "l", "_", "u", "s", "e">>

TypeReasoningV2 == <<"R", "e", "a", "s", "o", "n", "i", "n", "g", "_", "V", "2">>

TypeOther == <<"o", "t", "h", "e", "r">>

\* hasattr / getattr on a content block (a record of its attributes).
HasAttr(b, a) == a \in DOMAIN b

GetAttr(b, a, default) == IF a \in DOMAIN b THEN b[a] ELSE default

\* text_blocks collecting the text of every block that has one, whatever
\* its type.
RECURSIVE text_blocks_any_type(_)
text_blocks_any_type(blocks) ==
    IF blocks = <<>> THEN <<>>
    ELSE (IF HasAttr(Head(blocks), "text")
          THEN <<Head(blocks).text>>
          ELSE <<>>) \o text_blocks_any_type(Tail(blocks))

\* text_blocks of chat_with_reasoning: the text attribute (default '') of
\* every block whose type is exactly "text".
RECURSIVE text_blocks(_)
text_blocks(blocks) ==
    IF blocks = <<>> THEN <<>>
    ELSE (IF GetAttr(Head(blocks), "type", PyNone) = PyStr(TypeText)
          THEN <<GetAttr(Head(blocks), "text", PyStr(<<>>))>>
          ELSE <<>>) \o text_blocks(Tail(blocks))

\* full_text of the fallback branch: text + "\n" of every block that has a
\* text attribute, whatever its type.
RECURSIVE full_text(_)
full_text(blocks) ==
    IF blocks = <<>> THEN <<>>
    ELSE (IF HasAttr(Head(blocks), "text")
          THEN Head(blocks).text.s \o <<"\n">>
          ELSE <<>>) \o full_text(Tail(blocks))

AllStr(vals) == \A i \in 1..Len(vals) : vals[i].kind = "str"

\* The final answer of chat_with_reasoning (lines 406-419).  "\n".join and
\* text + "\n" raise TypeError on a text that is not a str.
FinalAnswerRaises(blocks) ==
    IF text_blocks(blocks) # <<>>
    THEN ~AllStr(text_blocks(blocks))
    ELSE \E i \in 1..Len(blocks) :
            HasAttr(blocks[i], "text") /\ blocks[i].text.kind # "str"

final_answer(blocks) ==
    IF text_blocks(blocks) # <<>>
    THEN JoinNewline([i \in 1..Len(text_blocks(blocks)) |-> text_blocks(blocks)[i].s])
    ELSE IF full_text(blocks) # <<>> THEN Strip(full_text(blocks)) ELSE <<>>

\* str(value)
ToStr(v) ==
    CASE v.kind = "str" -> v.s
      [] v.kind = "None" -> <<"N", "o", "n", "e">>
      [] OTHER -> <<"<", "o", "b", "j", ">">>

\* Truth value of any Python value of the model: an empty str and None are
\* false, an object is true.
IsTruthy(v) ==
    CASE v.kind = "str" -> v.s # <<>>
      [] v.kind = "None" -> FALSE
      [] OTHER -> TRUE

\* The if/elif chain with the search done on str(block_type) as it is, without
\* lower().
BlockClassCaseSensitive(b) ==
    LET block_type == GetAttr(b, "type", PyNone)
        block_type_str == ToStr(block_type)
    IN  IF block_type = PyStr(TypeText) THEN "text"
        ELSE IF block_type = PyStr(TypeThinking) THEN "thinking"
        ELSE IF block_type = PyStr(TypeToolUse) THEN "tool_use"
        ELSE IF \/ Contains(block_type_str,
                            <<"r", "e", "a", "s", "o", "n", "i", "n", "g">>)
                \/ Contains(block_type_str, <<"t", "h", "o", "u", "g", "h", "t">>)
             THEN "reasoning"
        ELSE "ignored"

\* The branch of the if/elif chain of lines 342-378 a block takes: the exact
\* tags first, then the case-insensitive search for "reasoning" or "thought"
\* in str(block_type).
BlockClass(b) ==
    LET block_type == GetAttr(b, "type", PyNone)
        block_type_str == Lower(ToStr(block_type))
    IN  IF block_type = PyStr(TypeText) THEN "text"
        ELSE IF block_type = PyStr(TypeThinking) THEN "thinking"
        ELSE IF block_type = PyStr(TypeToolUse) THEN "tool_use"
        ELSE IF \/ Contains(block_type_str,
                            <<"r", "e", "a", "s", "o", "n", "i", "n", "g">>)
                \/ Contains(block_type_str, <<"t", "h", "o", "u", "g", "h", "t">>)
             THEN "reasoning"
        ELSE "ignored"

ProbeAttrs == <<"thinking", "reasoning", "thought", "content">>

\* The for loop of lines 355-362 / 387-394 from position i: the first
\* attribute of the list the block has decides; a str is taken as it is, any
\* other value gives its text attribute if it has one.
RECURSIVE ProbeFrom(_, _)
ProbeFrom(b, i) ==
    IF i > Len(ProbeAttrs) THEN PyStr(<<>>)
    ELSE IF HasAttr(b, ProbeAttrs[i])
         THEN LET value == b[ProbeAttrs[i]] IN
              IF value.kind = "str" THEN value
              ELSE IF value.kind = "obj" /\ "text" \in DOMAIN value.attrs
                   THEN value.attrs.text
                   ELSE PyStr(<<>>)
         ELSE ProbeFrom(b, i + 1)

\* reasoning_text of a block of type "thinking" (lines 348-362).
reasoning_text(b) ==
    IF HasAttr(b, "text") THEN b.text
    ELSE IF HasAttr(b, "content") THEN PyStr(ToStr(b.content))
    ELSE ProbeFrom(b, 1)

\* The fuzzy branch reading the text attribute only.
reasoning_text_fuzzy_text_only(b) ==
    IF HasAttr(b, "text") THEN b.text ELSE PyStr(<<>>)

\* reasoning_text of a block whose type matched the search for "reasoning"
\* or "thought" (lines 380-394).
reasoning_text_fuzzy(b) ==
    IF HasAttr(b, "text") THEN b.text
    ELSE IF HasAttr(b, "content") THEN PyStr(ToStr(b.content))
    ELSE ProbeFrom(b, 1)

\* What one block adds to reasoning_blocks: its reasoning_text when that is
\* true, nothing otherwise, and nothing for a block of another class.
reasoning_of(b) ==
    LET rt == IF BlockClass(b) = "thinking" THEN reasoning_text(b)
              ELSE reasoning_text_fuzzy(b)
    IN  IF BlockClass(b) \in {"thinking", "reasoning"} /\ IsTruthy(rt)
        THEN <<rt>>
        ELSE <<>>

\* reasoning_blocks after the pass over response.content.
RECURSIVE reasoning_blocks(_)
reasoning_blocks(blocks) ==
    IF blocks = <<>> THEN <<>>
    ELSE reasoning_of(Head(blocks)) \o reasoning_blocks(Tail(blocks))

TOOL_PLACEHOLDER == <<"[", "t", "o", "o", "l", "s", "]">>

\* assistant_message of chat_without_reasoning (lines 195-220) for a response
\* with at least one choice: the content, or the placeholder when the content
\* is None and the message carries tool calls.
assistant_message(message) ==
    IF message.content.kind = "None" /\ message.tool_calls
    THEN PyStr(TOOL_PLACEHOLDER)
    ELSE message.content

\* response.choices[0] raises IndexError on an empty list.
OpenAIRaises(resp) == resp.choices = <<>>

\* Truth value of a str or None.
Truthy(v) == v.kind = "str" /\ v.s # <<>>

\* ------------------------------------------------------------------- inputs
\* Lines the user types at the prompt (the value input() returns).
Lines == {<<>>, <<" ", "\t">>, <<" ", "h", "i", "\n">>, <<" ", "E", "X", "I", "T", " ">>}

SentinelExit == <<"e", "x", "i", "t">>

\* Provider A responses: the choices list, each choice's message with its
\* content (a str or None) and whether it carries tool calls.
OpenAIResponses ==
    {[choices |-> <<[content |-> PyStr(<<"A">>), tool_calls |-> FALSE]>>],
     [choices |-> <<[content |-> PyNone, tool_calls |-> TRUE]>>],
     [choices |-> <<[content |-> PyNone, tool_calls |-> FALSE]>>],
     [choices |-> <<[content |-> PyStr(<<>>), tool_calls |-> FALSE]>>],
     [choices |-> <<>>]}

\* The user line and the response of the "Explain X" walk-through: a
\* thinking block that carries its reasoning in text, then the text block.
ExplainX == <<"E", "x", "p", "l", "a", "i", "n", " ", "X">>

AnswerDot == <<"A", "n", "s", "w", "e", "r", ".">>

ScenarioResponse ==
    [content |-> <<[type |-> PyStr(TypeThinking), text |-> PyStr(<<"r">>)],
                   [type |-> PyStr(TypeText), text |-> PyStr(AnswerDot)]>>]

\* Provider B responses: the content block list.
AnthropicResponses ==
    {ScenarioResponse,
     [content |-> <<[type |-> PyStr(TypeThinking), thinking |-> PyStr(<<"r">>)],
                    [type |-> PyStr(TypeText), text |-> PyStr(<<"A">>)]>>],
     [content |-> <<[type |-> PyStr(TypeText), text |-> PyStr(<<"A">>)],
                    [type |-> PyStr(TypeText), text |-> PyStr(<<"B">>)]>>],
     [content |-> <<[type |-> PyStr(TypeThinking), text |-> PyStr(<<"r">>)]>>],
     [content |-> <<[type |-> PyStr(TypeThinking), thinking |-> PyStr(<<"r">>)]>>],
     [content |-> <<[type |-> PyStr(TypeToolUse), name |-> PyStr(<<"w">>)]>>],
     [content |-> <<[type |-> PyStr(TypeReasoningV2), text |-> PyStr(<<" ">>)],
                    [type |-> PyStr(TypeOther), text |-> PyStr(<<"u">>)]>>],
     [content |-> <<[type |-> PyStr(TypeText), text |-> PyStr(<<>>)]>>],
     [content |-> <<[type |-> PyStr(TypeText), text |-> PyNone]>>],
     [content |-> <<[type |-> PyStr(TypeReasoningV2), thought |-> PyStr(<<"r">>)],
                    [type |-> PyStr(TypeText), text |-> PyStr(<<"A">>),
                     thought |-> PyStr(<<"t">>)]>>],
     [content |-> <<[thinking |-> PyObj([text |-> PyStr(<<"r">>)])]>>],
     [content |-> <<>>]}

NoResponse == [none |-> TRUE]

\* History files the program can find at start-up: none, one json.load
\* rejects, documents of another shape, and a document an earlier run saved.
EarlierMessages ==
    <<SystemMessage,
      [role |-> "user", content |-> <<"y", "o">>],
      [role |-> "assistant", content |-> <<"A", "\n", "B">>]>>

InitFiles ==
    {AbsentFile,
     UnparsableFile,
     JsonFile([mode |-> "openai", messages |-> JsonNull]),
     JsonFile([mode |-> "anthropic"]),
     JsonFile(HistoryData(EarlierMessages, "openai", FALSE))}

\* How a failed provider call counts for the turn's history.
ErrKind(e) ==
    IF e.cls = "KeyboardInterrupt" THEN "interrupt"
    ELSE IF IsModelNotSupported(e) THEN "model"
    ELSE "other"

\* What a save_history call leaves on record: the conversation and mode it
\* wrote, or that it failed.
NoSave == [kind |-> "none"]

SavedBy(msgs, m, outcome) ==
    IF outcome = "ok" THEN [kind |-> "ok", mode |-> m, messages |-> msgs]
    ELSE [kind |-> "failed"]

\* -------------------------------------------------------------------- state
VARIABLES
    pc,              \* where the process is: "menu", "await" (input()),
                     \* "call" (first provider call), "fallback" (the
                     \* alternative_models loop), "normalize" (response
                     \* received), "save" (answer appended), "done"
    mode,            \* session.mode
    use_web_search,  \* session.use_web_search
    messages,        \* session.messages
    file,            \* chat_history.json
    line,            \* the last value input() returned
    request_params,  \* request_params of the turn as last sent, NoRequest
                     \* once the turn is over
    altIdx,          \* position of the fallback loop in alternative_models
    response,        \* response of the turn, NoResponse once it has been
                     \* processed
    attempts,        \* history: model ids of the provider calls of the turn
    errKinds,        \* history: how the failed provider calls of the turn
                     \* failed: "model" (taken as model not supported),
                     \* "other" (any other provider error), "interrupt"
    ev,              \* history: how the last step left the try block
    wrote,           \* history: the last step called save_history
    saved            \* history: what the last save_history call of this run
                     \* wrote, if it succeeded

vars == <<pc, mode, use_web_search, messages, file, line, request_params,
          altIdx, response, attempts, errKinds, ev, wrote, saved>>

Init ==
    /\ pc = "menu"
    /\ mode = "none"
    /\ use_web_search = FALSE
    /\ messages = <<>>
    /\ file \in InitFiles
    /\ line = <<>>
    /\ request_params = NoRequest
    /\ altIdx = 0
    /\ response = NoResponse
    /\ attempts = <<>>
    /\ errKinds = {}
    /\ ev = "none"
    /\ wrote = FALSE
    /\ saved = NoSave

\* main(): menu choice 1 or 2, ask_web_search, then the mode function up to
\* its loop: ChatSession(use_web_search, mode).  An exception of the
\* constructor ends the mode function and is reported by main's loop.
StartSession(m, ws) ==
    /\ pc = "menu"
    /\ IF InitRaises(file, m)
       THEN /\ pc' = "menu"
            /\ ev' = "start_failed"
            /\ UNCHANGED <<mode, use_web_search, messages>>
       ELSE /\ pc' = "await"
            /\ ev' = "start"
            /\ mode' = m
            /\ use_web_search' = ws
            /\ messages' = InitMessages(file, m)
    /\ line' = <<>>
    /\ wrote' = FALSE
    /\ UNCHANGED <<file, request_params, altIdx, response, attempts, errKinds,
                   saved>>

\* main(): menu choice 0.
MenuExit ==
    /\ pc = "menu"
    /\ pc' = "done"
    /\ ev' = "none"
    /\ wrote' = FALSE
    /\ UNCHANGED <<mode, use_web_search, messages, file, line, request_params,
                   altIdx, response, attempts, errKinds, saved>>

BuildRequest(msgs, m, ws) ==
    IF m = "openai" THEN BuildRequestOpenAI(msgs, ws)
    ELSE BuildRequestAnthropic(msgs, ws)

\* The head of a loop iteration: input().strip(), the exit sentinel, the
\* empty-input test, add_user_message and the request build.
ReadInput(raw) ==
    /\ pc = "await"
    /\ line' = raw
    /\ wrote' = FALSE
    /\ LET user_input == Strip(raw) IN
       IF Lower(user_input) = SentinelExit
       THEN /\ pc' = "menu"
            /\ ev' = "exit"
            /\ UNCHANGED <<messages, request_params, attempts, errKinds>>
       ELSE IF user_input = <<>>
       THEN /\ pc' = "await"
            /\ ev' = "empty"
            /\ UNCHANGED <<messages, request_params, attempts, errKinds>>
       ELSE /\ Len(messages) < MaxMsgs
            /\ pc' = "call"
            /\ ev' = "turn"
            /\ messages' = add_user_message(messages, user_input)
            /\ request_params' =
                   BuildRequest(add_user_message(messages, user_input),
                                mode, use_web_search)
            /\ attempts' = <<>>
            /\ errKinds' = {}
    /\ UNCHANGED <<mode, use_web_search, file, altIdx, response, saved>>

\* The except clauses with the KeyboardInterrupt clause leaving the loop
\* without saving.
RaiseWithoutSave(cls, saveOutcome) ==
    /\ ev' = ExceptClause(cls)
    /\ pc' = (IF ClauseExit(ExceptClause(cls)) = "break" THEN "menu" ELSE "await")
    /\ wrote' = FALSE
    /\ request_params' = NoRequest
    /\ response' = NoResponse
    /\ attempts' = <<>>
    /\ errKinds' = {}
    /\ altIdx' = 0
    /\ UNCHANGED <<mode, use_web_search, messages, line, file, saved>>

\* The except clauses with the clauses that continue taking the turn's User
\* message back out of the conversation.
RaiseRollsBack(cls, saveOutcome) ==
    /\ ev' = ExceptClause(cls)
    /\ IF ClauseExit(ExceptClause(cls)) = "break"
       THEN /\ pc' = "menu"
            /\ file' = save_history(file, messages, mode, use_web_search,
                                    saveOutcome)
            /\ wrote' = TRUE
            /\ saved' = SavedBy(messages, mode, saveOutcome)
            /\ messages' = messages
       ELSE /\ pc' = "await"
            /\ file' = file
            /\ wrote' = FALSE
            /\ saved' = saved
            /\ messages' = SubSeq(messages, 1, Len(messages) - 1)
    /\ request_params' = NoRequest
    /\ response' = NoResponse
    /\ attempts' = <<>>
    /\ errKinds' = {}
    /\ altIdx' = 0
    /\ UNCHANGED <<mode, use_web_search, line>>

\* An exception that leaves the try block of a loop iteration: the except
\* clause reports it; KeyboardInterrupt saves the history and leaves the
\* loop, every other clause continues with the next input.
Raise(cls, saveOutcome) ==
    /\ ev' = ExceptClause(cls)
    /\ IF ClauseExit(ExceptClause(cls)) = "break"
       THEN /\ pc' = "menu"
            /\ file' = save_history(file, messages, mode, use_web_search,
                                    saveOutcome)
            /\ wrote' = TRUE
            /\ saved' = SavedBy(messages, mode, saveOutcome)
       ELSE /\ pc' = "await"
            /\ file' = file
            /\ wrote' = FALSE
            /\ saved' = saved
    /\ request_params' = NoRequest
    /\ response' = NoResponse
    /\ attempts' = <<>>
    /\ errKinds' = {}
    /\ altIdx' = 0
    /\ UNCHANGED <<mode, use_web_search, messages, line>>

\* client.chat.completions.create(**request_params)
CallOpenAI ==
    /\ pc = "call"
    /\ mode = "openai"
    /\ \/ \E r \in OpenAIResponses :
            /\ response' = r
            /\ pc' = "normalize"
            /\ ev' = "none"
            /\ wrote' = FALSE
            /\ attempts' = Append(attempts, request_params.model)
            /\ UNCHANGED <<mode, use_web_search, messages, file, line,
                           request_params, altIdx, errKinds, saved>>
       \/ \E e \in OpenAIErrors : Raise(e.cls, "ok")

\* The first client.messages.create(**request_params) of a turn, with the
\* except BadRequestError clause around it.
CallAnthropic ==
    /\ pc = "call"
    /\ mode = "anthropic"
    /\ \/ \E r \in AnthropicResponses :
            /\ response' = r
            /\ pc' = "normalize"
            /\ ev' = "none"
            /\ wrote' = FALSE
            /\ attempts' = Append(attempts, request_params.model)
            /\ UNCHANGED <<mode, use_web_search, messages, file, line,
                           request_params, altIdx, errKinds, saved>>
       \/ \E e \in AnthropicErrors :
            IF IsModelNotSupported(e)
            THEN /\ pc' = "fallback"
                 /\ altIdx' = 1
                 /\ ev' = "none"
                 /\ wrote' = FALSE
                 /\ attempts' = Append(attempts, request_params.model)
                 /\ errKinds' = errKinds \cup {ErrKind(e)}
                 /\ UNCHANGED <<mode, use_web_search, messages, file, line,
                                request_params, response, saved>>
            ELSE Raise(e.cls, "ok")

\* A fallback iteration that builds a new request for the alternative model
\* without the thinking parameter.
FallbackAttemptRebuilds ==
    /\ pc = "fallback"
    /\ altIdx <= Len(alternative_models)
    /\ attempts' = Append(attempts, alternative_models[altIdx])
    /\ request_params' =
           [model |-> alternative_models[altIdx],
            max_tokens |-> MAX_TOKENS,
            system |-> get_system_prompt(messages),
            messages |-> get_messages_for_anthropic(messages)]
    /\ ev' = "none"
    /\ wrote' = FALSE
    /\ \/ \E r \in AnthropicResponses :
            /\ response' = r
            /\ pc' = "normalize"
            /\ altIdx' = 0
            /\ errKinds' = errKinds
       \/ \E e \in AnthropicErrors \cup {Err("KeyboardInterrupt", <<>>)} :
            /\ response' = NoResponse
            /\ pc' = "fallback"
            /\ altIdx' = altIdx + 1
            /\ errKinds' = errKinds \cup {ErrKind(e)}
    /\ UNCHANGED <<mode, use_web_search, messages, file, line, saved>>

\* One iteration of `for alt_model in alternative_models`: the model field is
\* replaced, the call repeated; the bare except swallows whatever the call
\* raises (KeyboardInterrupt included) and the loop goes on.
FallbackAttempt ==
    /\ pc = "fallback"
    /\ altIdx <= Len(alternative_models)
    /\ attempts' = Append(attempts, alternative_models[altIdx])
    /\ request_params' =
           [request_params EXCEPT !.model = alternative_models[altIdx]]
    /\ ev' = "none"
    /\ wrote' = FALSE
    /\ \/ \E r \in AnthropicResponses :
            /\ response' = r
            /\ pc' = "normalize"
            /\ altIdx' = 0
            /\ errKinds' = errKinds
       \/ \E e \in AnthropicErrors \cup {Err("KeyboardInterrupt", <<>>)} :
            /\ response' = NoResponse
            /\ pc' = "fallback"
            /\ altIdx' = altIdx + 1
            /\ errKinds' = errKinds \cup {ErrKind(e)}
    /\ UNCHANGED <<mode, use_web_search, messages, file, line, saved>>

\* After the loop: response is None, so the turn raises Exception.
FallbackExhausted ==
    /\ pc = "fallback"
    /\ altIdx > Len(alternative_models)
    /\ Raise("Exception", "ok")

\* The rest of the try block once a response is there: the answer is taken
\* from the response and, when it is not empty, appended.
Normalize ==
    /\ pc = "normalize"
    /\ IF mode = "openai"
       THEN IF OpenAIRaises(response)
            THEN Raise("Exception", "ok")
            ELSE LET am == assistant_message(response.choices[1]) IN
                 /\ IF Truthy(am)
                    THEN /\ messages' = add_assistant_message(messages, am.s)
                         /\ pc' = "save"
                         /\ ev' = "none"
                    ELSE /\ messages' = messages
                         /\ pc' = "await"
                         /\ ev' = "completed"
                 /\ response' = NoResponse
                 /\ request_params' = NoRequest
                 /\ wrote' = FALSE
                 /\ attempts' = <<>>
                 /\ errKinds' = {}
                 /\ UNCHANGED <<mode, use_web_search, file, line, altIdx,
                                saved>>
       ELSE IF FinalAnswerRaises(response.content)
            THEN Raise("Exception", "ok")
            ELSE LET fa == final_answer(response.content) IN
                 /\ IF fa # <<>>
                    THEN /\ messages' = add_assistant_message(messages, fa)
                         /\ pc' = "save"
                         /\ ev' = "none"
                    ELSE /\ messages' = messages
                         /\ pc' = "await"
                         /\ ev' = "completed"
                 /\ response' = NoResponse
                 /\ request_params' = NoRequest
                 /\ wrote' = FALSE
                 /\ attempts' = <<>>
                 /\ errKinds' = {}
                 /\ UNCHANGED <<mode, use_web_search, file, line, altIdx,
                                saved>>

\* A save whose failure ends the mode loop instead of being swallowed.
SaveAbortsOnFailure(outcome) ==
    /\ pc = "save"
    /\ file' = save_history(file, messages, mode, use_web_search, outcome)
    /\ wrote' = TRUE
    /\ saved' = SavedBy(messages, mode, outcome)
    /\ pc' = (IF outcome = "ok" THEN "await" ELSE "menu")
    /\ ev' = (IF outcome = "ok" THEN "completed" ELSE "Exception")
    /\ UNCHANGED <<mode, use_web_search, messages, line, request_params,
                   altIdx, response, attempts, errKinds>>

\* session.save_history() after add_assistant_message.
Save(outcome) ==
    /\ pc = "save"
    /\ file' = save_history(file, messages, mode, use_web_search, outcome)
    /\ wrote' = TRUE
    /\ saved' = SavedBy(messages, mode, outcome)
    /\ pc' = "await"
    /\ ev' = "completed"
    /\ UNCHANGED <<mode, use_web_search, messages, line, request_params,
                   altIdx, response, attempts, errKinds>>

\* Ctrl-C while the try block runs outside the fallback loop: at the prompt,
\* during the first provider call, while the response is processed or before
\* the save.
Interrupt(saveOutcome) ==
    /\ pc \in {"await", "call", "normalize", "save"}
    /\ Raise("KeyboardInterrupt", saveOutcome)

Next ==
    \/ \E m \in Modes, ws \in BOOLEAN : StartSession(m, ws)
    \/ MenuExit
    \/ \E raw \in Lines : ReadInput(raw)
    \/ CallOpenAI
    \/ CallAnthropic
    \/ FallbackAttempt
    \/ FallbackExhausted
    \/ Normalize
    \/ \E o \in SaveOutcomes : Save(o)
    \/ \E o \in SaveOutcomes : Interrupt(o)

Spec == Init /\ [][Next]_vars

\* ------------------------------------------------- the Provider B walk-through
\* The Provider B mode alone, started without a history file, with the user
\* typing "Explain X", an empty line or the exit word.
ScenarioLines == {ExplainX, <<>>, <<" ", "E", "X", "I", "T", " ">>}

ScenarioInit == Init /\ file = AbsentFile

ScenarioNext ==
    \/ \E ws \in BOOLEAN : StartSession("anthropic", ws)
    \/ MenuExit
    \/ \E raw \in ScenarioLines : ReadInput(raw)
    \/ CallAnthropic
    \/ FallbackAttempt
    \/ FallbackExhausted
    \/ Normalize
    \/ \E o \in SaveOutcomes : Save(o)
    \/ \E o \in SaveOutcomes : Interrupt(o)

SpecScenario == ScenarioInit /\ [][ScenarioNext]_vars

\* ------------------------------------------------ reasoning blocks by themselves
\* A Provider B turn whose response is one reasoning block, of the exact or
\* of a fuzzy type, carrying up to two of the attributes the extraction looks
\* at, each with a value of any kind: a str, the empty str, None, an object
\* with a text attribute, an object without.
ProbeFields == {"text", "content", "thinking", "reasoning", "thought"}

ProbeValues ==
    {PyStr(<<"r">>), PyStr(<<>>), PyNone,
     PyObj([text |-> PyStr(<<"n">>)]), PyObj([data |-> PyStr(<<"d">>)])}

ProbeBlocks ==
    {[type |-> PyStr(t)] @@ f :
        t \in {TypeThinking, TypeReasoningV2},
        f \in UNION {[S -> ProbeValues] :
                        S \in {T \in SUBSET ProbeFields : Cardinality(T) <= 2}}}

ProbeUserMessages == <<SystemMessage, [role |-> "user", content |-> <<"h", "i">>]>>

\* The state of chat_with_reasoning when the request of the first turn has
\* been built.
ProbeInit ==
    /\ pc = "call"
    /\ mode = "anthropic"
    /\ use_web_search = FALSE
    /\ messages = ProbeUserMessages
    /\ file = AbsentFile
    /\ line = <<"h", "i">>
    /\ request_params = BuildRequestAnthropic(ProbeUserMessages, FALSE)
    /\ altIdx = 0
    /\ response = NoResponse
    /\ attempts = <<>>
    /\ errKinds = {}
    /\ ev = "turn"
    /\ wrote = FALSE
    /\ saved = NoSave

\* client.messages.create(**request_params) returning one reasoning block.
ProbeCall ==
    /\ pc = "call"
    /\ mode = "anthropic"
    /\ \E b \in ProbeBlocks : response' = [content |-> <<b>>]
    /\ pc' = "normalize"
    /\ ev' = "none"
    /\ wrote' = FALSE
    /\ attempts' = Append(attempts, request_params.model)
    /\ UNCHANGED <<mode, use_web_search, messages, file, line,
                   request_params, altIdx, errKinds, saved>>

ProbeNext ==
    \/ ProbeCall
    \/ Normalize
    \/ \E o \in SaveOutcomes : Save(o)

SpecProbe == ProbeInit /\ [][ProbeNext]_vars

\* ------------------------------------------------------- the store by itself
\* The ChatSession operations called in any order by a client of the class:
\* the constructor, the two appends, save_history and clear_history.  pc is
\* "store" while a session object is alive.
StoreContents == {<<>>, <<"h", "i">>}

\* The appends of the store-level specification stop at this many messages
\* after the first.
MaxStoreMsgs == 2

StoreFrame == <<line, request_params, altIdx, response, attempts, errKinds>>

\* ChatSession(use_web_search, mode)
StoreNew(m, ws) ==
    /\ pc = "menu"
    /\ IF InitRaises(file, m)
       THEN /\ pc' = "menu"
            /\ ev' = "start_failed"
            /\ UNCHANGED <<mode, use_web_search, messages>>
       ELSE /\ pc' = "store"
            /\ ev' = "start"
            /\ mode' = m
            /\ use_web_search' = ws
            /\ messages' = InitMessages(file, m)
    /\ wrote' = FALSE
    /\ UNCHANGED <<file, saved, StoreFrame>>

\* session.add_user_message(content)
StoreAddUser(content) ==
    /\ pc = "store"
    /\ Len(messages) <= MaxStoreMsgs
    /\ messages' = add_user_message(messages, content)
    /\ ev' = "add_user"
    /\ wrote' = FALSE
    /\ UNCHANGED <<pc, mode, use_web_search, file, saved, StoreFrame>>

\* session.add_assistant_message(content)
StoreAddAssistant(content) ==
    /\ pc = "store"
    /\ Len(messages) <= MaxStoreMsgs
    /\ messages' = add_assistant_message(messages, content)
    /\ ev' = "add_assistant"
    /\ wrote' = FALSE
    /\ UNCHANGED <<pc, mode, use_web_search, file, saved, StoreFrame>>

\* session.save_history()
StoreSave(outcome) ==
    /\ pc = "store"
    /\ file' = save_history(file, messages, mode, use_web_search, outcome)
    /\ saved' = SavedBy(messages, mode, outcome)
    /\ ev' = "save"
    /\ wrote' = TRUE
    /\ UNCHANGED <<pc, mode, use_web_search, messages, StoreFrame>>

\* session.clear_history()
StoreClear(removed) ==
    /\ pc = "store"
    /\ messages' = <<SystemMessage>>
    /\ file' = clear_history(file, removed)
    /\ ev' = "clear"
    /\ wrote' = FALSE
    /\ UNCHANGED <<pc, mode, use_web_search, saved, StoreFrame>>

\* The session object is dropped.
StoreDrop ==
    /\ pc = "store"
    /\ pc' = "menu"
    /\ ev' = "none"
    /\ wrote' = FALSE
    /\ UNCHANGED <<mode, use_web_search, messages, file, saved, StoreFrame>>

StoreNext ==
    \/ \E m \in Modes, ws \in BOOLEAN : StoreNew(m, ws)
    \/ \E c \in StoreContents : StoreAddUser(c)
    \/ \E c \in StoreContents : StoreAddAssistant(c)
    \/ \E o \in SaveOutcomes : StoreSave(o)
    \/ \E removed \in BOOLEAN : StoreClear(removed)
    \/ StoreDrop

SpecStore == Init /\ [][StoreNext]_vars

\* ------------------------------------------------------------------- claims
InLoop == pc \in {"await", "call", "fallback", "normalize", "save"}

HasNewline(s) == \E i \in 1..Len(s) : s[i] = "\n"

\* C1: a session constructed right after a successful save under the same
\* mode holds exactly the saved sequence of (role, content) messages, in the
\* saved order.
C1_RoundTrip ==
    (ev = "start" /\ saved.kind = "ok" /\ saved.mode = mode)
        => messages = saved.messages

\* A session restored from a history this run saved, whose last message has
\* content with a newline in it.
C1_Witness ==
    /\ ev = "start"
    /\ saved.kind = "ok"
    /\ saved.mode = mode
    /\ Len(messages) >= 3
    /\ HasNewline(messages[Len(messages)].content)

\* C2: a session constructed while the history file holds a conversation
\* stored under the other mode loads none of it: it holds the seeded System
\* message and nothing else.
C2_ModeIsolation ==
    (/\ ev = "start"
     /\ file.kind = "json"
     /\ "mode" \in DOMAIN file.doc
     /\ file.doc.mode # mode)
        => messages = <<SystemMessage>>

\* A session started in one mode right after this run saved a conversation
\* with user and assistant messages under the other mode.
C2_Witness ==
    /\ ev = "start"
    /\ saved.kind = "ok"
    /\ saved.mode # mode
    /\ Len(saved.messages) >= 3
    /\ file = JsonFile(HistoryData(saved.messages, saved.mode, FALSE))
    /\ messages = <<SystemMessage>>

OnlyWhitespace(s) == \A i \in 1..Len(s) : s[i] \in Whitespace

\* C3: reading a line that is empty or only whitespace appends no message,
\* makes no provider call, does not call save_history or change the file,
\* and leaves the loop at the prompt.
C3_EmptyTurnNoEffect ==
    [][(pc = "await" /\ ev' # "KeyboardInterrupt" /\ OnlyWhitespace(line'))
        => /\ pc' = "await"
           /\ ~wrote'
           /\ UNCHANGED <<messages, file, mode, use_web_search, request_params,
                          altIdx, response, attempts, errKinds, saved>>]_vars

\* A whitespace-only line was read in a conversation that already has a turn.
C3_Witness ==
    /\ pc = "await"
    /\ ev = "empty"
    /\ line # <<>>
    /\ OnlyWhitespace(line)
    /\ Len(messages) >= 2

\* The text segments of a Provider B response: the text of the blocks whose
\* type is exactly "text", in block order.
TextSegments(resp) == text_blocks(resp.content)

\* A received response yields no text.
YieldsNoText(resp, m) ==
    IF m = "openai"
    THEN resp.choices # <<>> /\ ~Truthy(resp.choices[1].content)
    ELSE /\ AllStr(TextSegments(resp))
         /\ JoinNewline([i \in 1..Len(TextSegments(resp)) |->
                            TextSegments(resp)[i].s]) = <<>>

\* C4: in both modes, processing a response that yields no text appends no
\* message and returns the loop to the prompt.
C4_NoTextNoAssistant ==
    [][(pc = "normalize" /\ ev' # "KeyboardInterrupt"
        /\ YieldsNoText(response, mode))
        => (messages' = messages /\ pc' = "await")]_vars

\* C5: in Provider B mode the message appended for a response is the
\* Assistant message whose content is the newline-join of the text segments.
C5_AssistantIsTextJoin ==
    [][(pc = "normalize" /\ mode = "anthropic" /\ messages' # messages)
        => /\ AllStr(TextSegments(response))
           /\ messages' = Append(messages,
                 [role |-> "assistant",
                  content |-> JoinNewline([i \in 1..Len(TextSegments(response)) |->
                                              TextSegments(response)[i].s])])]_vars

AssistantAppended ==
    /\ InLoop
    /\ Len(messages') = Len(messages) + 1
    /\ SubSeq(messages', 1, Len(messages)) = messages
    /\ messages'[Len(messages')].role = "assistant"

\* C6: the step that appends an Assistant message leaves the loop before the
\* save, not at the prompt; every step taken from there calls save_history;
\* and every step that leaves a mode loop on KeyboardInterrupt calls
\* save_history.
C6_SaveAfterAppendAndOnInterrupt ==
    [][/\ AssistantAppended => pc' = "save"
       /\ pc = "save" => (wrote' /\ pc' \in {"await", "menu"})
       /\ (InLoop /\ ev' = "KeyboardInterrupt") => (wrote' /\ pc' = "menu")]_vars

\* The loop was left on KeyboardInterrupt with an Assistant message as the
\* last message, and the save that followed wrote the whole conversation.
C6_Witness ==
    /\ pc = "menu"
    /\ ev = "KeyboardInterrupt"
    /\ wrote
    /\ messages[Len(messages)].role = "assistant"
    /\ saved.kind = "ok"
    /\ saved.messages = messages
    /\ file = JsonFile(HistoryData(messages, mode, use_web_search))

\* The messages of the file's document, whatever its mode.
FileMessages ==
    IF /\ file.kind = "json"
       /\ "messages" \in DOMAIN file.doc
       /\ file.doc.messages.kind = "jlist"
    THEN [i \in 1..Len(file.doc.messages.items) |->
             ParseMessage(file.doc.messages.items[i])]
    ELSE <<>>

\* Length of the longest common prefix of two sequences.
RECURSIVE CommonPrefixLen(_, _)
CommonPrefixLen(a, b) ==
    IF a = <<>> \/ b = <<>> \/ Head(a) # Head(b) THEN 0
    ELSE 1 + CommonPrefixLen(Tail(a), Tail(b))

\* The messages in memory that the file does not hold.
UnsavedMessages ==
    SubSeq(messages, CommonPrefixLen(messages, FileMessages) + 1, Len(messages))

\* Every turn puts exactly one User message in the conversation.
UnsavedTurns ==
    Len(SelectSeq(UnsavedMessages, LAMBDA msg : msg.role = "user"))

AtPromptOrExit ==
    \/ pc = "await"
    \/ pc = "menu" /\ ev \in {"exit", "KeyboardInterrupt"}

\* C7: at the prompt and at every exit of a mode loop, unless the last save
\* failed, the messages in memory that the file does not hold belong to at
\* most one turn.
C7_AtMostOneTurnAtRisk ==
    (AtPromptOrExit /\ saved.kind # "failed") => UnsavedTurns <= 1

\* C8: in a turn whose provider calls all failed as model not supported, the
\* calls made are at most as many as the candidate list is long, and once the
\* list is exhausted they are exactly the candidates, each once, in list
\* order.
C8_FallbackExhaustion ==
    (pc = "fallback" /\ errKinds \subseteq {"model"})
        => /\ Len(attempts) <= Len(alternative_models)
           /\ altIdx > Len(alternative_models) => attempts = alternative_models

\* C9: once a provider call of a turn has failed with an error that is not
\* model-not-supported, no further provider call is made in that turn.
C9_NoRetryOnOtherError ==
    [][("other" \in errKinds) => Len(attempts') <= Len(attempts)]_vars

ErrorClauses == {"APITimeoutError", "APIError", "Exception"}

C11_InterruptExits ==
    [][(InLoop /\ (ev' = "KeyboardInterrupt"
                   \/ ("interrupt" \in errKinds' /\ "interrupt" \notin errKinds)))
        => (pc' = "menu" /\ messages' = messages)]_vars

\* C12: a save after an append that fails leaves the conversation as it was,
\* with the appended Assistant message, and the loop goes on to the prompt
\* without an error reaching the turn boundary.
C12_SaveFailureContained ==
    [][(pc = "save" /\ wrote' /\ saved'.kind = "failed"
        /\ ev' # "KeyboardInterrupt")
        => /\ messages' = messages
           /\ messages'[Len(messages')].role = "assistant"
           /\ pc' = "await"
           /\ ev' = "completed"]_vars

\* The save after an append failed and the loop is at the prompt with the
\* Assistant message still in memory and not in the file.
C12_Witness ==
    /\ pc = "await"
    /\ ev = "completed"
    /\ wrote
    /\ saved.kind = "failed"
    /\ messages[Len(messages)].role = "assistant"
    /\ file # JsonFile(HistoryData(messages, mode, use_web_search))

\* C13: whatever the outcome of a save_history call, the file afterwards
\* holds either its complete previous content or the complete new document.
C13_AtomicSave ==
    [][wrote' => file' \in {file,
                            JsonFile(HistoryData(messages, mode,
                                                 use_web_search))}]_vars

\* C14: processing a Provider B response never raises, whatever the type
\* tags and text-bearing fields of its blocks.
C14_NormalizerTotal ==
    [][(pc = "normalize" /\ mode = "anthropic") => ev' \notin ErrorClauses]_vars

Range(seq) == {seq[i] : i \in 1..Len(seq)}

\* A type tag that contains "reasoning" or "thought", letter case ignored.
FuzzyReasoningTag(b) ==
    /\ HasAttr(b, "type")
    /\ b.type.kind = "str"
    /\ \/ Contains(Lower(b.type.s), <<"r", "e", "a", "s", "o", "n", "i", "n", "g">>)
       \/ Contains(Lower(b.type.s), <<"t", "h", "o", "u", "g", "h", "t">>)

\* The fields a reasoning text can be taken from.
TextBearing == {"text", "content", "thinking", "reasoning", "thought"}

\* C20: in a received Provider B response, a block whose type tag contains
\* "reasoning" or "thought" is classified as reasoning and its non-empty text
\* is one of the reasoning segments; a block whose type is exactly "text" is
\* classified as text, its text is one of the text segments, and it adds
\* nothing to the reasoning segments, whatever other fields it has.
C20_FuzzyReasoningMatch ==
    (pc = "normalize" /\ mode = "anthropic")
        => \A i \in 1..Len(response.content) :
              LET b == response.content[i] IN
              /\ (FuzzyReasoningTag(b) /\ b.type # PyStr(TypeText))
                    => /\ BlockClass(b) = "reasoning"
                       /\ \A a \in TextBearing \cap DOMAIN b :
                             (b[a].kind = "str" /\ b[a].s # <<>>
                              /\ TextBearing \cap DOMAIN b = {a})
                                => b[a] \in Range(reasoning_blocks(response.content))
              /\ (HasAttr(b, "type") /\ b.type = PyStr(TypeText))
                    => /\ BlockClass(b) = "text"
                       /\ GetAttr(b, "text", PyStr(<<>>))
                             \in Range(text_blocks(response.content))
                       /\ reasoning_blocks(<<b>>) = <<>>

\* A response is being processed that has a "Reasoning_V2" block with a
\* thought field and a "text" block that has a thought field too.
C20_Witness ==
    /\ pc = "normalize"
    /\ mode = "anthropic"
    /\ \E i, j \in 1..Len(response.content) :
          /\ GetAttr(response.content[i], "type", PyNone) = PyStr(TypeReasoningV2)
          /\ HasAttr(response.content[i], "thought")
          /\ GetAttr(response.content[j], "type", PyNone) = PyStr(TypeText)
          /\ HasAttr(response.content[j], "thought")
          /\ reasoning_blocks(response.content) = <<response.content[i].thought>>
          /\ text_blocks(response.content) = <<response.content[j].text>>

\* C18: the request a Provider A call is made with has, with web search on,
\* the search-variant model, web_search_options and no temperature; with web
\* search off, the base model, temperature 0.7 and no web_search_options; in
\* both cases its messages are the whole conversation, System message first.
C18_OpenAIRequestShape ==
    (pc = "call" /\ mode = "openai")
        => /\ request_params.messages = messages
           /\ request_params.messages[1] = SystemMessage
           /\ IF use_web_search
              THEN /\ request_params.model = "gpt-4o-mini-search-preview"
                   /\ DOMAIN request_params
                         = {"model", "messages", "web_search_options"}
                   /\ request_params.web_search_options.search_context_size
                         = "medium"
              ELSE /\ request_params.model = "gpt-4o-mini"
                   /\ DOMAIN request_params = {"model", "messages", "temperature"}
                   /\ request_params.temperature = 7

\* A Provider A call with web search on is about to be made in a
\* conversation that already holds an earlier turn.
C18_Witness ==
    /\ pc = "call"
    /\ mode = "openai"
    /\ use_web_search
    /\ Len(messages) >= 3
    /\ "web_search_options" \in DOMAIN request_params

\* The conversation without its System messages, order kept.
RECURSIVE WithoutSystem(_)
WithoutSystem(msgs) ==
    IF msgs = <<>> THEN <<>>
    ELSE IF Head(msgs).role = "system" THEN WithoutSystem(Tail(msgs))
    ELSE <<Head(msgs)>> \o WithoutSystem(Tail(msgs))

\* C19: the request of every Provider B call, first attempt or fallback
\* attempt, has the System message's content as system, the conversation
\* without System messages as messages, max_tokens 4096, thinking enabled
\* with budget_tokens 1024, and the web_search tool with max_uses 5 exactly
\* when web search is on.
C19_AnthropicRequestShape ==
    (pc \in {"call", "fallback"} /\ mode = "anthropic")
        => /\ request_params.system = messages[1].content
           /\ request_params.messages = WithoutSystem(messages)
           /\ request_params.max_tokens = 4096
           /\ request_params.thinking = [type |-> "enabled", budget_tokens |-> 1024]
           /\ request_params.thinking.budget_tokens >= 1024
           /\ ("tools" \in DOMAIN request_params) <=> use_web_search
           /\ use_web_search
                 => /\ Len(request_params.tools) = 1
                    /\ request_params.tools[1].name = "web_search"
                    /\ request_params.tools[1].max_uses = 5

\* A fallback attempt is about to be made with web search on, the model
\* field already replaced by a later candidate.
C19_Witness ==
    /\ pc = "fallback"
    /\ mode = "anthropic"
    /\ use_web_search
    /\ altIdx = 3
    /\ request_params.model = alternative_models[2]
    /\ Len(request_params.messages) >= 2

SystemCount(msgs) == Len(SelectSeq(msgs, LAMBDA msg : msg.role = "system"))

\* C15: while a session object is alive its conversation has at most one
\* System message, and a System message it has is the first message.
C15_SystemMessageFirst ==
    (pc = "store")
        => /\ SystemCount(messages) <= 1
           /\ SystemCount(messages) = 1 => messages[1].role = "system"

\* A conversation restored from a file this run saved was cleared, the file
\* removed.
C15_Witness ==
    /\ pc = "store"
    /\ ev = "clear"
    /\ saved.kind = "ok"
    /\ Len(saved.messages) >= 3
    /\ file = AbsentFile
    /\ messages = <<SystemMessage>>

\* C16: every User and Assistant message of a live session has non-empty
\* content (an append with empty content is refused and changes nothing).
C16_NonEmptyContent ==
    (pc = "store")
        => \A i \in 1..Len(messages) :
              messages[i].role \in {"user", "assistant"}
                 => messages[i].content # <<>>

IsPrefix(a, b) == Len(a) <= Len(b) /\ SubSeq(b, 1, Len(a)) = a

\* C17: no step of the program (session start, turn, save that succeeds,
\* exit) removes the history file or drops a message the file holds.
C17_OnlyClearDestroys ==
    [][(saved'.kind # "failed")
        => /\ file.kind # "absent" => file'.kind # "absent"
           /\ IsPrefix(FileMessages, FileMessages')]_vars

\* C21: from a fresh store in Provider B mode, the turn "Explain X" builds a
\* request whose system is the default prompt and whose messages are the one
\* User message; the response [thinking with text, text "Answer."] gives
\* one reasoning segment and one text segment, and processing it appends the
\* Assistant message "Answer." and nothing else.
C21_ExplainXScenario ==
    [][/\ (/\ pc = "await"
           /\ messages = <<SystemMessage>>
           /\ line' = ExplainX
           /\ ev' = "turn")
           => /\ request_params'.system = SYSTEM_PROMPT
              /\ request_params'.messages =
                     <<[role |-> "user", content |-> ExplainX]>>
       /\ (/\ pc = "normalize"
           /\ response = ScenarioResponse
           /\ messages = <<SystemMessage, [role |-> "user", content |-> ExplainX]>>
           /\ ev' # "KeyboardInterrupt")
           => /\ Len(reasoning_blocks(response.content)) = 1
              /\ text_blocks(response.content) = <<PyStr(AnswerDot)>>
              /\ messages' = Append(messages, [role |-> "assistant",
                                               content |-> AnswerDot])]_vars

\* The walk-through has run to the point where the answer is in the
\* conversation and about to be saved.
C21_Witness ==
    /\ pc = "save"
    /\ mode = "anthropic"
    /\ file = AbsentFile
    /\ messages = <<SystemMessage,
                    [role |-> "user", content |-> ExplainX],
                    [role |-> "assistant", content |-> AnswerDot]>>

\* A history file that is absent, that json.load rejects, or whose document
\* has no message list (the field is missing or null).
NotAHistory(f) ==
    \/ f.kind \in {"absent", "unparsable"}
    \/ /\ f.kind = "json"
       /\ \/ "messages" \notin DOMAIN f.doc
          \/ f.doc.messages.kind = "null"

\* C22: constructing a session over a history file that is absent, not
\* parsable or of another shape does not raise and gives the conversation
\* holding only the System message.
C22_RestoreNeverFatal ==
    [][(pc = "menu" /\ pc' # "done" /\ NotAHistory(file))
        => (ev' = "start" /\ pc' = "await" /\ messages' = <<SystemMessage>>)]_vars

\* C23: every step taken inside a mode loop (input, request build, provider
\* call, fallback, response processing, save, error handling, leaving the
\* loop) leaves the conversation it found as a prefix of the conversation it
\* leaves.
C23_AppendOnly ==
    [][InLoop => IsPrefix(messages, messages')]_vars

\* A Provider B conversation that kept the User message of an abandoned turn
\* and has just received the answer of the next turn.
C23_Witness ==
    /\ pc = "save"
    /\ mode = "anthropic"
    /\ Len(messages) = 4
    /\ messages[2].role = "user"
    /\ messages[3].role = "user"
    /\ messages[4].role = "assistant"

\* Two request payloads that agree on every field but model.
SameButModel(a, b) ==
    /\ DOMAIN a = DOMAIN b
    /\ \A k \in DOMAIN a \ {"model"} : a[k] = b[k]

\* C24: a retry of the fallback loop sends the payload of the attempt before
\* it with only the model replaced, which is the request built for the turn
\* (system, messages, max_tokens, thinking, tools) under the alternative
\* model id, and the step leaves the conversation as it was.
C24_FallbackSamePayload ==
    [][(pc = "fallback" /\ Len(attempts') = Len(attempts) + 1)
        => /\ SameButModel(request_params', request_params)
           /\ SameButModel(request_params',
                           BuildRequestAnthropic(messages, use_web_search))
           /\ request_params'.model = alternative_models[altIdx]
           /\ messages' = messages]_vars

\* With web search on, the third retry of a turn has just been answered.
C24_Witness ==
    /\ pc = "normalize"
    /\ use_web_search
    /\ Len(attempts) = 4
    /\ request_params.model = alternative_models[3]
    /\ "tools" \in DOMAIN request_params

\* The probe order as the claim words it.
ClaimedCandidates == <<"thinking", "reasoning", "thought", "content">>

ClaimedProbe(b) ==
    IF "text" \in DOMAIN b THEN b.text
    ELSE IF "content" \in DOMAIN b THEN PyStr(ToStr(b.content))
    ELSE LET present == {i \in 1..Len(ClaimedCandidates) :
                            ClaimedCandidates[i] \in DOMAIN b}
         IN  IF present = {} THEN PyStr(<<>>)
             ELSE LET first == CHOOSE i \in present : \A j \in present : i <= j
                      v == b[ClaimedCandidates[first]]
                  IN  IF v.kind = "str" THEN v
                      ELSE IF v.kind = "obj" /\ "text" \in DOMAIN v.attrs
                           THEN v.attrs.text
                           ELSE PyStr(<<>>)

\* C25: when a response is processed, each block classified as reasoning
\* (exact "thinking" or fuzzy match) yields the text the probe order gives
\* (text, else str(content), else the first present of thinking, reasoning,
\* thought, content, with its nested text when it is not a str); an empty
\* result adds nothing to the reasoning segments; and the block gives the
\* same text under the exact tag as under a fuzzy one.
C25_ProbeOrder ==
    [][(pc = "normalize" /\ mode = "anthropic")
        => \A i \in 1..Len(response.content) :
              LET b == response.content[i] IN
              BlockClass(b) \in {"thinking", "reasoning"}
                 => /\ reasoning_of(b) =
                          (IF IsTruthy(ClaimedProbe(b)) THEN <<ClaimedProbe(b)>>
                           ELSE <<>>)
                    /\ reasoning_of([b EXCEPT !.type = PyStr(TypeThinking)])
                          = reasoning_of([b EXCEPT !.type = PyStr(TypeReasoningV2)])]_vars

\* A fuzzy-typed block without text or content, whose first present
\* candidate (thinking) holds an object with a nested text although thought
\* holds a str, is being processed.
C25_Witness ==
    /\ pc = "normalize"
    /\ response # NoResponse
    /\ response.content =
          <<[type |-> PyStr(TypeReasoningV2),
             thinking |-> PyObj([text |-> PyStr(<<"n">>)]),
             thought |-> PyStr(<<"r">>)]>>
    /\ reasoning_blocks(response.content) = <<PyStr(<<"n">>)>>

UserMessage(raw) == [role |-> "user", content |-> Strip(raw)]

InTurn == pc \in {"call", "fallback", "normalize"}

\* C26: a turn adds its User message when it starts and nothing more until
\* a response is processed; a step on which a timeout, an API error, the
\* exhausted fallback or any other Exception abandons the turn changes
\* neither the conversation, which keeps that User message as its last, nor
\* the history file; and the request of the turn after it carries that User
\* message with the new User message right behind it.
C26_AbandonedTurnKept ==
    [][/\ (ev' = "turn") => messages' = Append(messages, UserMessage(line'))
       /\ (InTurn /\ pc' \in {"call", "fallback"}) => messages' = messages
       /\ (InTurn /\ ev' \in ErrorClauses)
           => /\ messages' = messages
              /\ messages'[Len(messages')] = UserMessage(line')
              /\ file' = file
       /\ (pc = "await" /\ ev \in ErrorClauses /\ ev' = "turn")
           => LET sent == request_params'.messages IN
              /\ Len(sent) >= 2
              /\ sent[Len(sent) - 1] = UserMessage(line)
              /\ sent[Len(sent)] = UserMessage(line')]_vars

\* Two turns in a row were abandoned, the second on a timeout: both User
\* messages are in the conversation and nothing was saved.
C26_Witness ==
    /\ pc = "await"
    /\ ev = "APITimeoutError"
    /\ Len(messages) = 3
    /\ messages[2].role = "user"
    /\ messages[3] = UserMessage(line)
    /\ saved = NoSave
    /\ file = AbsentFile

====
